---- MODULE Spec2Model ----
(***************************************************************************)
(* A model of the parts of sisl that the repository ships as source:       *)
(*   - plot_atom, the HOMO/LUMO selection, the wavefunction cell and the   *)
(*     charge-difference cell of docs/tutorials/tutorial_siesta_1.ipynb,   *)
(*   - the Cython build file (the three foreach lists) and pylint's        *)
(*     extension-pkg-allow-list of pyproject.toml,                         *)
(*   - the unit rule of the minimizer input optimize.yaml,                 *)
(*   - the k-space matrix kernel the build file compiles (_matrix_k).      *)
(* Each part is a state machine of its own over its own variables; the     *)
(* variables of the other parts stay at their idle values.                 *)
(***************************************************************************)
EXTENDS Integers, Sequences, FiniteSets, TLC

VARIABLES
    \* plot_atom
    pcPlot, no, nx, ny, i, j, fig, drawn,
    \* HOMO/LUMO selection
    pcEig, eig, idx_lumo, es,
    \* wavefunction cell
    pcWave, psi, g, out,
    \* charge-difference cell
    pcRho, siesta, dens, heap, rho, diff, outDiff,
    \* Cython build file and pylint
    pcBuild, loop, src, libs, installed, linted, flagged,
    \* minimizer input (optimize.yaml)
    pcUnit, entry, parsed,
    \* k-space matrix kernel
    pcK, csr, phases, v, r, ind,
    \* variables of the minimizer input (optimize.yaml)
    pcYaml, vidx, variable, point

plotVars == <<pcPlot, no, nx, ny, i, j, fig, drawn>>
eigVars == <<pcEig, eig, idx_lumo, es>>
waveVars == <<pcWave, psi, g, out>>
rhoVars == <<pcRho, siesta, dens, heap, rho, diff, outDiff>>

buildVars == <<pcBuild, loop, src, libs, installed, linted, flagged>>

unitVars == <<pcUnit, entry, parsed>>

kernelVars == <<pcK, csr, phases, v, r, ind>>

yamlVars == <<pcYaml, vidx, variable, point>>

vars == <<plotVars, eigVars, waveVars, rhoVars, buildVars, unitVars, kernelVars,
          yamlVars>>

notPlot == <<eigVars, waveVars, rhoVars, buildVars, unitVars, kernelVars,
    yamlVars>>
notEig == <<plotVars, waveVars, rhoVars, buildVars, unitVars, kernelVars,
    yamlVars>>
notWave == <<plotVars, eigVars, rhoVars, buildVars, unitVars, kernelVars,
    yamlVars>>
notRho == <<plotVars, eigVars, waveVars, buildVars, unitVars, kernelVars,
    yamlVars>>
notBuild == <<plotVars, eigVars, waveVars, rhoVars, unitVars, kernelVars,
    yamlVars>>
notUnit == <<plotVars, eigVars, waveVars, rhoVars, buildVars, kernelVars,
    yamlVars>>
notKernel == <<plotVars, eigVars, waveVars, rhoVars, buildVars, unitVars,
    yamlVars>>
notYaml == <<plotVars, eigVars, waveVars, rhoVars, buildVars, unitVars,
    kernelVars>>

----------------------------------------------------------------------------
(* Helpers *)

Range(s) == {s[k] : k \in 1..Len(s)}

----------------------------------------------------------------------------
(* plot_atom: docs/tutorials/tutorial_siesta_1.ipynb                        *)

\* Largest number of orbitals of an atom handed to plot_atom.
MaxNo == 21

\* The column count hard-wired in plot_atom (i // 4, (i - 4) % 4).
PlotCols == 4

\* c, r = i // 4, (i - 4) % 4   (Python floor division and modulo)
CellIndex(k) == <<k \div PlotCols, (k - PlotCols) % PlotCols>>

\* The axes plt.subplots(nx, ny) creates: a 1-D array of ny axes when
\* nx = 1, an nx x ny array otherwise.  A cell is <<c, r>>, first index c.
Subplots(x, y) == {<<cc, rr>> : cc \in 0..(x - 1), rr \in 0..(y - 1)}

\* ax = axs[r] if nx == 1 else axs[c][r]: the cell the subscript selects.
AxSelect(x, cell) == IF x = 1 THEN <<0, cell[2]>> ELSE cell

\* The subscript raises IndexError when an index is past the array's shape.
AxInRange(x, y, cell) ==
    IF x = 1 THEN cell[2] < y
             ELSE cell[1] < x /\ cell[2] < y

\* A row count that is never 0.
GridRowsAtLeastOne(n) == IF n \div PlotCols = 0 THEN 1 ELSE n \div PlotCols

\* nx = no // 4
GridRows(n) == n \div PlotCols

\* The row count without the correction of lines 182-183.
GridRowsNoIncrement(n, x, y) == x

\* if nx * ny < no: nx += 1
GridRowsFinal(n, x, y) == IF x * y < n THEN x + 1 ELSE x

PlotIdle ==
    /\ pcPlot = "idle" /\ no = 0 /\ nx = 0 /\ ny = 0 /\ i = 0 /\ j = 0
    /\ fig = {} /\ drawn = <<>>

PlotInit ==
    /\ pcPlot = "start"
    /\ no \in 0..MaxNo
    /\ nx = 0 /\ ny = 0 /\ i = 0 /\ j = 0
    /\ fig = {} /\ drawn = <<>>

\* Lines 179-185: the grid dimensions and plt.subplots.
PlotAtomGrid ==
    /\ pcPlot = "start"
    /\ IF GridRows(no) = 0
       THEN \* ny = no // nx divides by zero
            /\ pcPlot' = "ZeroDivisionError"
            /\ UNCHANGED <<nx, ny, fig>>
       ELSE LET x == GridRows(no)
                y == no \div x
            IN /\ nx' = GridRowsFinal(no, x, y)
               /\ ny' = y
               /\ fig' = Subplots(GridRowsFinal(no, x, y), y)
               /\ pcPlot' = "draw"
    /\ UNCHANGED <<no, i, j, drawn>>
    /\ UNCHANGED notPlot

\* Lines 187-205: one pass of "for orb in atom: my_plot(i, orb); i += 1".
MyPlot ==
    /\ pcPlot = "draw"
    /\ i < no
    /\ LET cell == CellIndex(i)
       IN IF AxInRange(nx, ny, cell)
          THEN /\ drawn' = Append(drawn, AxSelect(nx, cell))
               /\ i' = i + 1
               /\ UNCHANGED pcPlot
          ELSE /\ pcPlot' = "IndexError"
               /\ UNCHANGED <<drawn, i>>
    /\ UNCHANGED <<no, nx, ny, j, fig>>
    /\ UNCHANGED notPlot

\* Line 206: the loop over the orbitals has ended; "if i < nx * ny".
PlotLoopEnd ==
    /\ pcPlot = "draw"
    /\ i = no
    /\ IF i < nx * ny
       THEN pcPlot' = "remove" /\ j' = i
       ELSE pcPlot' = "done" /\ UNCHANGED j
    /\ UNCHANGED <<no, nx, ny, i, fig, drawn>>
    /\ UNCHANGED notPlot

\* Lines 208-214: one pass of "for j in range(i, nx * ny): fig.delaxes(ax)".
DelAxes ==
    /\ pcPlot = "remove"
    /\ j < nx * ny
    /\ LET cell == CellIndex(j)
       IN IF AxInRange(nx, ny, cell)
          THEN /\ fig' = fig \ {AxSelect(nx, cell)}
               /\ j' = j + 1
               /\ UNCHANGED pcPlot
          ELSE /\ pcPlot' = "IndexError"
               /\ UNCHANGED <<fig, j>>
    /\ UNCHANGED <<no, nx, ny, i, drawn>>
    /\ UNCHANGED notPlot

\* Line 215: plt.draw() after the removal loop.
PlotDraw ==
    /\ pcPlot = "remove"
    /\ j = nx * ny
    /\ pcPlot' = "done"
    /\ UNCHANGED <<no, nx, ny, i, j, fig, drawn>>
    /\ UNCHANGED notPlot

----------------------------------------------------------------------------
(* HOMO/LUMO selection: docs/tutorials/tutorial_siesta_1.ipynb, 240-248     *)

\* Largest number of eigenvalues of the Hamiltonian.
MaxEig == 4

\* Eigenvalues range over -MaxAbsEig..MaxAbsEig (E_F = 0).
MaxAbsEig == 2

Ascending(s) == \A k \in 1..(Len(s) - 1) : s[k] <= s[k + 1]

\* H.eigenstate(): the eigenvalues come in ascending order.
Spectra ==
    {s \in UNION {[1..n -> (-MaxAbsEig)..MaxAbsEig] : n \in 1..MaxEig} :
        Ascending(s)}

\* a[k] of a Python/numpy array with a 0-based index k: a negative index
\* counts from the end.
PyIndex(a, k) == IF k < 0 THEN a[Len(a) + k + 1] ELSE a[k + 1]

\* es.eig: the eigenvalue of every state held by es.
EsEig(e, states) == [k \in 1..Len(states) |-> e[states[k] + 1]]

\* (es.eig > 0).nonzero()[0]: the 0-based indices of the positive entries.
PositiveIdx(e) == {k \in 0..(Len(e) - 1) : e[k + 1] > 0}

Min(S) == CHOOSE m \in S : \A n \in S : m <= n

\* es.sub([a, b]): the states at the two (Python) indices, in that order.
EsSub(states, a, b) == <<PyIndex(states, a), PyIndex(states, b)>>

EigIdle ==
    /\ pcEig = "idle" /\ eig = <<>> /\ idx_lumo = 0 /\ es = <<>>

\* Line 240: es holds every eigenstate, state k at position k.
EigInit ==
    /\ pcEig = "start"
    /\ eig \in Spectra
    /\ es = [k \in 1..Len(eig) |-> k - 1]
    /\ idx_lumo = 0

\* Line 247: idx_lumo = (es.eig > 0).nonzero()[0][0]
FindLumo ==
    /\ pcEig = "start"
    /\ IF PositiveIdx(EsEig(eig, es)) = {}
       THEN pcEig' = "IndexError" /\ UNCHANGED idx_lumo
       ELSE /\ idx_lumo' = Min(PositiveIdx(EsEig(eig, es)))
            /\ pcEig' = "found"
    /\ UNCHANGED <<eig, es>>
    /\ UNCHANGED notEig

\* Line 248: es = es.sub([idx_lumo - 1, idx_lumo])
ReduceEs ==
    /\ pcEig = "found"
    /\ es' = EsSub(es, idx_lumo - 1, idx_lumo)
    /\ pcEig' = "reduced"
    /\ UNCHANGED <<eig, idx_lumo>>
    /\ UNCHANGED notEig

NextEig ==
    \/ FindLumo
    \/ ReduceEs

----------------------------------------------------------------------------
(* Real-space grids: docs/tutorials/tutorial_siesta_1.ipynb, 281-340        *)

\* Number of points of a real-space grid.
NPts == 2

\* Wavefunction values on a grid point range over -MaxPsi..MaxPsi.
MaxPsi == 1

\* Charge densities on a grid point range over 0..MaxRho.
MaxRho == 2

\* The volume of one grid voxel ranges over 1..MaxDVolume.
MaxDVolume == 2

Pts == 1..NPts

RECURSIVE SumTo(_, _)
SumTo(f, n) == IF n = 0 THEN 0 ELSE f[n] + SumTo(f, n - 1)

\* grid.sum() of an array over the grid points.
GridSum(a) == SumTo(a, NPts)

\* si.Grid(...): a grid object, every value 0.
NewGrid(dv) == [grid |-> [p \in Pts |-> 0], dvolume |-> dv]

\* g.fill(val): every value of the grid becomes val (in place).
GridFill(gr, val) == [gr EXCEPT !.grid = [p \in Pts |-> val]]

\* es.sub(k).wavefunction(g) and DM.density(g): the values computed on the
\* grid points are added onto the grid's values (in place).
GridAdd(gr, a) == [gr EXCEPT !.grid = [p \in Pts |-> gr.grid[p] + a[p]]]

\* grid * val: a new grid object holding the product.
GridMul(gr, val) == [gr EXCEPT !.grid = [p \in Pts |-> gr.grid[p] * val]]

\* integrate(g), lines 281-286: (np.absolute(g.grid) ** 2).sum() * g.dvolume
integrate(gr) == GridSum([p \in Pts |-> gr.grid[p] * gr.grid[p]]) * gr.dvolume

WaveIdle ==
    /\ pcWave = "idle" /\ psi = <<>> /\ g = <<>> /\ out = <<>>

\* Line 289: g = si.Grid(0.2, lattice=h2o.lattice); psi[1] and psi[2] are
\* the wavefunctions of es.sub(0) (HOMO) and es.sub(1) (LUMO) on the grid.
WaveInit ==
    /\ pcWave = "grid"
    /\ psi \in [1..2 -> [Pts -> (-MaxPsi)..MaxPsi]]
    /\ \E dv \in 1..MaxDVolume : g = NewGrid(dv)
    /\ out = <<>>

\* Line 290: es.sub(0).wavefunction(g)
WaveHomo ==
    /\ pcWave = "grid"
    /\ g' = GridAdd(g, psi[1])
    /\ pcWave' = "homo"
    /\ UNCHANGED <<psi, out>>
    /\ UNCHANGED notWave

\* Line 291: integrate(g)
IntegrateHomo ==
    /\ pcWave = "homo"
    /\ out' = Append(out, integrate(g))
    /\ pcWave' = "homo_printed"
    /\ UNCHANGED <<psi, g>>
    /\ UNCHANGED notWave

\* The cell without line 293: the grid keeps the HOMO's values.
FillSkipped ==
    /\ pcWave = "homo_printed"
    /\ pcWave' = "filled"
    /\ UNCHANGED <<psi, g, out>>
    /\ UNCHANGED notWave

\* Line 293: g.fill(0)
FillZero ==
    /\ pcWave = "homo_printed"
    /\ g' = GridFill(g, 0)
    /\ pcWave' = "filled"
    /\ UNCHANGED <<psi, out>>
    /\ UNCHANGED notWave

\* Line 294: es.sub(1).wavefunction(g)
WaveLumo ==
    /\ pcWave = "filled"
    /\ g' = GridAdd(g, psi[2])
    /\ pcWave' = "lumo"
    /\ UNCHANGED <<psi, out>>
    /\ UNCHANGED notWave

\* Line 295: integrate(g)
IntegrateLumo ==
    /\ pcWave = "lumo"
    /\ out' = Append(out, integrate(g))
    /\ pcWave' = "lumo_printed"
    /\ UNCHANGED <<psi, g>>
    /\ UNCHANGED notWave

NextWave ==
    \/ WaveHomo
    \/ IntegrateHomo
    \/ FillZero
    \/ WaveLumo
    \/ IntegrateLumo

RhoIdle ==
    /\ pcRho = "idle" /\ siesta = <<>> /\ dens = <<>> /\ heap = <<>>
    /\ rho = 0 /\ diff = 0 /\ outDiff = <<>>

\* Lines 317-318: rho refers to the grid read from siesta_1.nc (siesta is
\* the file's charge density); dens is the density DM yields on the grid.
\* heap holds the grid objects, rho and diff are references into it
\* (0: not bound yet).
RhoInit ==
    /\ pcRho = "read"
    /\ siesta \in [Pts -> 0..MaxRho]
    /\ dens \in [Pts -> 0..MaxRho]
    /\ \E dv \in 1..MaxDVolume : heap = <<[grid |-> siesta, dvolume |-> dv]>>
    /\ rho = 1
    /\ diff = 0
    /\ outDiff = <<>>

\* The in-place product rho *= -1 with diff bound to the same object.
MulNegInPlace ==
    /\ pcRho = "read"
    /\ heap' = [heap EXCEPT ![rho] = GridMul(@, -1)]
    /\ diff' = rho
    /\ pcRho' = "negated"
    /\ UNCHANGED <<siesta, dens, rho, outDiff>>
    /\ UNCHANGED notRho

\* Line 334: diff = rho * (-1)
MulNeg ==
    /\ pcRho = "read"
    /\ heap' = Append(heap, GridMul(heap[rho], -1))
    /\ diff' = Len(heap) + 1
    /\ pcRho' = "negated"
    /\ UNCHANGED <<siesta, dens, rho, outDiff>>
    /\ UNCHANGED notRho

\* Line 335: DM.density(diff)
Density ==
    /\ pcRho = "negated"
    /\ heap' = [heap EXCEPT ![diff] = GridAdd(@, dens)]
    /\ pcRho' = "added"
    /\ UNCHANGED <<siesta, dens, rho, diff, outDiff>>
    /\ UNCHANGED notRho

\* Lines 336-340: print(diff.grid.sum() * diff.dvolume)
PrintDiff ==
    /\ pcRho = "added"
    /\ outDiff' = Append(outDiff, GridSum(heap[diff].grid) * heap[diff].dvolume)
    /\ pcRho' = "printed"
    /\ UNCHANGED <<siesta, dens, heap, rho, diff>>
    /\ UNCHANGED notRho

NextRho ==
    \/ MulNeg
    \/ Density
    \/ PrintDiff

----------------------------------------------------------------------------
(* The Cython build file (unnamed/part_000) and pyproject.toml              *)

\* pyproject.toml, [project] name: the value of ${SKBUILD_PROJECT_NAME}.
SKBUILD_PROJECT_NAME == "sisl"

\* The foreach lists with the second list installed like the first one,
\* under <project>/physics.
ForeachMisplaced ==
    << [sources |-> <<"_bloch", "_phase", "_matrix_utils",
                      "_matrix_k", "_matrix_dk", "_matrix_ddk",
                      "_matrix_phase", "_matrix_phase_sc", "_matrix_phase3">>,
        ext |-> ".pyx",
        dest |-> <<SKBUILD_PROJECT_NAME, "physics">>],
       [sources |-> <<"_indices", "_math_small">>,
        ext |-> ".pyx",
        dest |-> <<SKBUILD_PROJECT_NAME, "physics">>],
       [sources |-> <<"_sparse_grid_ops">>,
        ext |-> ".py",
        dest |-> <<SKBUILD_PROJECT_NAME>>] >>

\* The three foreach lists, lines 10-44: the sources, the extension of the
\* SOURCE file and the DESTINATION (a path, one component per element).
Foreach ==
    << [sources |-> <<"_bloch", "_phase", "_matrix_utils",
                      "_matrix_k", "_matrix_dk", "_matrix_ddk",
                      "_matrix_phase", "_matrix_phase_sc", "_matrix_phase3">>,
        ext |-> ".pyx",
        dest |-> <<SKBUILD_PROJECT_NAME, "physics">>],
       [sources |-> <<"_indices", "_math_small">>,
        ext |-> ".pyx",
        dest |-> <<SKBUILD_PROJECT_NAME>>],
       [sources |-> <<"_sparse_grid_ops">>,
        ext |-> ".py",
        dest |-> <<SKBUILD_PROJECT_NAME>>] >>

\* pyproject.toml, lines 253-266: extension-pkg-allow-list, a dotted name
\* as the sequence of its components.
AllowList ==
    { <<"sisl", "_math_small">>,
      <<"sisl", "_indices">>,
      <<"sisl", "_core", "_lattice">>,
      <<"sisl", "io", "siesta", "_siesta">>,
      <<"sisl", "physics", "_bloch">>,
      <<"sisl", "physics", "_matrix_k">>,
      <<"sisl", "physics", "_matrix_dk">>,
      <<"sisl", "physics", "_matrix_ddk">>,
      <<"numpy">>,
      <<"scipy">> }

\* The dotted module name of an installed library: the components of the
\* DESTINATION path, then the library's name.
ModuleName(inst) == Append(inst.DESTINATION, inst.TARGETS)

InstalledModules == {ModuleName(installed[k]) : k \in 1..Len(installed)}

\* pylint loads a C extension when its name, or the name of a package that
\* contains it, is in extension-pkg-allow-list.
Allowed(m) == \E n \in 1..Len(m) : SubSeq(m, 1, n) \in AllowList

BuildIdle ==
    /\ pcBuild = "idle" /\ loop = 0 /\ src = 0 /\ libs = <<>>
    /\ installed = <<>> /\ linted = {} /\ flagged = {}

BuildInit ==
    /\ pcBuild = "add" /\ loop = 1 /\ src = 1 /\ libs = <<>>
    /\ installed = <<>> /\ linted = {} /\ flagged = {}

\* add_cython_library(SOURCE ${source}.<ext> LIBRARY ${source}
\*                    OUTPUT ${source}_C)
AddCythonLibrary ==
    /\ pcBuild = "add"
    /\ LET source == Foreach[loop].sources[src]
       IN libs' = Append(libs, [SOURCE |-> <<source, Foreach[loop].ext>>,
                                LIBRARY |-> source,
                                OUTPUT |-> <<source, "_C">>])
    /\ pcBuild' = "install"
    /\ UNCHANGED <<loop, src, installed, linted, flagged>>
    /\ UNCHANGED notBuild

\* install(TARGETS ${source} LIBRARY DESTINATION <dest>), then the next
\* source of the list, the next foreach, or the end of the lists.
InstallTarget ==
    /\ pcBuild = "install"
    /\ installed' = Append(installed,
                           [TARGETS |-> Foreach[loop].sources[src],
                            DESTINATION |-> Foreach[loop].dest])
    /\ IF src < Len(Foreach[loop].sources)
       THEN src' = src + 1 /\ pcBuild' = "add" /\ UNCHANGED loop
       ELSE IF loop < Len(Foreach)
            THEN loop' = loop + 1 /\ src' = 1 /\ pcBuild' = "add"
            ELSE pcBuild' = "built" /\ UNCHANGED <<loop, src>>
    /\ UNCHANGED <<libs, linted, flagged>>
    /\ UNCHANGED notBuild

\* pylint (jobs = 6: in any order) meets an installed extension module: it
\* is loaded when allowed, and otherwise its members are unknown to pylint,
\* which reports false positives for it.
Lint ==
    /\ pcBuild = "built"
    /\ \E m \in InstalledModules \ linted :
          /\ linted' = linted \cup {m}
          /\ flagged' = IF Allowed(m) THEN flagged ELSE flagged \cup {m}
    /\ UNCHANGED <<pcBuild, loop, src, libs, installed>>
    /\ UNCHANGED notBuild

NextBuild ==
    \/ AddCythonLibrary
    \/ InstallTarget
    \/ Lint

----------------------------------------------------------------------------
(* Units of the minimizer input: optimize.yaml, lines 7-14                  *)

\* The units of the example, and the mark of a value written without one.
Units == {"Ang", "Bohr"}
NoUnit == "none"

\* A value entry is a number with or without a unit ("0. Ang", "50."); the
\* number plays no part in the choice of the unit and is left out.
Values == [unit : Units \cup {NoUnit}]

\* A variable is a group {initial, bounds: [lower, upper], delta} with or
\* without a unit of the group; a parameter is a single value.
Variables ==
    [kind : {"variable"}, initial : Values, bounds : [1..2 -> Values],
     delta : Values, unit : Units \cup {NoUnit}]
Parameters == [kind : {"parameter"}, value : Values]

\* Line 9:  V0: {initial: 0. Ang, bounds: [0, 200], delta: 50., unit=Bohr}
ExampleV0 ==
    [kind |-> "variable",
     initial |-> [unit |-> "Ang"],
     bounds |-> <<[unit |-> NoUnit], [unit |-> NoUnit]>>,
     delta |-> [unit |-> NoUnit],
     unit |-> "Bohr"]

\* Line 12:  V0: 0. Ang
ExampleParameter == [kind |-> "parameter", value |-> [unit |-> "Ang"]]

\* The unit of the group used for every value, whatever the value says.
GroupUnitFirst(val, group) == IF group # NoUnit THEN group ELSE val.unit

\* Lines 7-10: the unit a value is read in: the one written at the value,
\* else the one of the group (else none: the quantity's own unit).
UnitOf(val, group) == IF val.unit # NoUnit THEN val.unit ELSE group

UnitIdle ==
    /\ pcUnit = "idle" /\ entry = <<>> /\ parsed = <<>>

UnitInit ==
    /\ pcUnit = "read"
    /\ entry \in Variables \cup Parameters
    /\ parsed = <<>>

\* A variable: every numeric field of the group is read in its unit.
ParseVariable ==
    /\ pcUnit = "read"
    /\ entry.kind = "variable"
    /\ parsed' = [initial |-> UnitOf(entry.initial, entry.unit),
                  bounds |-> [k \in 1..2 |-> UnitOf(entry.bounds[k], entry.unit)],
                  delta |-> UnitOf(entry.delta, entry.unit)]
    /\ pcUnit' = "parsed"
    /\ UNCHANGED entry
    /\ UNCHANGED notUnit

\* A parameter: the single value has no group.
ParseParameter ==
    /\ pcUnit = "read"
    /\ entry.kind = "parameter"
    /\ parsed' = [value |-> UnitOf(entry.value, NoUnit)]
    /\ pcUnit' = "parsed"
    /\ UNCHANGED entry
    /\ UNCHANGED notUnit

NextUnit ==
    \/ ParseVariable
    \/ ParseParameter

----------------------------------------------------------------------------
(* The k-space matrix kernel (_matrix_k of the build file's kernel list)    *)

\* Number of rows of the sparse matrix: the orbitals of the unit cell.
NR == 2

\* Number of supercells; the matrix has NR * NSC columns.
NSC == 2

\* Largest number of stored elements of the sparse matrix.
MaxNnz == 2

\* Stored elements range over 1..MaxData.
MaxData == 2

NCols == NR * NSC

\* Complex numbers with integer parts, <<re, im>>.
CZero == <<0, 0>>
CAdd(a, b) == <<a[1] + b[1], a[2] + b[2]>>
CMul(a, b) == <<a[1] * b[1] - a[2] * b[2], a[1] * b[2] + a[2] * b[1]>>

\* The phase factors exp(i k R) of a k-point, one per supercell: the fourth
\* roots of unity, for the k-points at which every phase is one of them.
RootsOfUnity == <<<<1, 0>>, <<0, 1>>, <<-1, 0>>, <<0, -1>>>>
PhaseSets ==
    {[s \in 0..(NSC - 1) |-> RootsOfUnity[((kq * s) % Len(RootsOfUnity)) + 1]] :
        kq \in 0..(Len(RootsOfUnity) - 1)}

\* The stored positions of a sparse matrix, row by row and by ascending
\* column inside a row: position p is row p \div NCols, column p % NCols.
Patterns ==
    {q \in UNION {[1..n -> 0..(NR * NCols - 1)] : n \in 0..MaxNnz} :
        \A k \in 1..(Len(q) - 1) : q[k] < q[k + 1]}

\* The compressed-sparse-row-like storage of a pattern and its elements:
\* ptr[row] is the index of the row's first element, ncol[row] the number
\* of its elements, col[ind] and D[ind] the column and value of element ind.
ToCSR(q, d) ==
    [ptr |-> [row \in 0..NR |->
                 Cardinality({k \in 1..Len(q) : q[k] \div NCols < row})],
     ncol |-> [row \in 0..(NR - 1) |->
                 Cardinality({k \in 1..Len(q) : q[k] \div NCols = row})],
     col |-> [n \in 0..(Len(q) - 1) |-> q[n + 1] % NCols],
     D |-> [n \in 0..(Len(q) - 1) |-> d[n + 1]]]

\* The stored element replaces the output entry.
Overwrite(old, contribution) == contribution

\* v[r, c] += phases[s] * D[ind]
Accumulated(old, contribution) == CAdd(old, contribution)

KernelIdle ==
    /\ pcK = "idle" /\ csr = <<>> /\ phases = <<>> /\ v = <<>>
    /\ r = 0 /\ ind = 0

\* v = zeros([nr, nr]); the loops start at row 0 and its first element.
KernelInit ==
    /\ pcK = "loop"
    /\ \E q \in Patterns : \E d \in [1..Len(q) -> 1..MaxData] : csr = ToCSR(q, d)
    /\ phases \in PhaseSets
    /\ v = [row \in 0..(NR - 1) |-> [c \in 0..(NR - 1) |-> CZero]]
    /\ r = 0
    /\ ind = csr.ptr[0]

\* One pass of "for ind in range(ptr[r], ptr[r] + ncol[r])":
\*   c = col[ind] % nr;  s = col[ind] / nr;  v[r, c] += phases[s] * D[ind]
Accumulate ==
    /\ pcK = "loop"
    /\ r < NR
    /\ ind < csr.ptr[r] + csr.ncol[r]
    /\ LET c == csr.col[ind] % NR
           s == csr.col[ind] \div NR
       IN v' = [v EXCEPT ![r][c] =
                   Accumulated(@, CMul(phases[s], <<csr.D[ind], 0>>))]
    /\ ind' = ind + 1
    /\ UNCHANGED <<pcK, csr, phases, r>>
    /\ UNCHANGED notKernel

\* The elements of row r are done: "for r in range(nr)" takes the next row.
NextRow ==
    /\ pcK = "loop"
    /\ r < NR
    /\ ind = csr.ptr[r] + csr.ncol[r]
    /\ r' = r + 1
    /\ ind' = csr.ptr[r + 1]
    /\ UNCHANGED <<pcK, csr, phases, v>>
    /\ UNCHANGED notKernel

\* Every row is done: the kernel returns v.
KernelReturn ==
    /\ pcK = "loop"
    /\ r = NR
    /\ pcK' = "done"
    /\ UNCHANGED <<csr, phases, v, r, ind>>
    /\ UNCHANGED notKernel

NextKernel ==
    \/ Accumulate
    \/ NextRow
    \/ KernelReturn

----------------------------------------------------------------------------
(* The variables of the example minimizer input: optimize.yaml, 39-91       *)

\* Every entry {initial, bounds: [lower, upper], delta} under atom_Al, with
\* its path and its line in the file.  The numbers are written in units of
\* 0.0001 (1.2 is 12000, 0.0053 is 53).
AtomAl ==
    << [path |-> <<"3s", "pseudo", "cutoff">>, line |-> 41,
        initial |-> 12000, bounds |-> <<8000, 23000>>, delta |-> 1000],
       [path |-> <<"3s", "basis", "soft-confinement", "V0">>, line |-> 60,
        initial |-> 0, bounds |-> <<0, 10000000>>, delta |-> 500000],
       [path |-> <<"3s", "basis", "soft-confinement", "ri">>, line |-> 61,
        initial |-> -8000, bounds |-> <<-9500, -5000>>, delta |-> 800],
       [path |-> <<"3s", "basis", "zeta1">>, line |-> 62,
        initial |-> 24000, bounds |-> <<10000, 55000>>, delta |-> 5000],
       [path |-> <<"3s", "basis", "zeta2">>, line |-> 63,
        initial |-> 16000, bounds |-> <<10000, 55000>>, delta |-> 5000],
       [path |-> <<"3p", "pseudo", "cutoff">>, line |-> 66,
        initial |-> 11000, bounds |-> <<8000, 23000>>, delta |-> 1000],
       [path |-> <<"3p", "basis", "soft-confinement", "V0">>, line |-> 70,
        initial |-> 0, bounds |-> <<0, 10000000>>, delta |-> 500000],
       [path |-> <<"3p", "basis", "soft-confinement", "ri">>, line |-> 71,
        initial |-> -8000, bounds |-> <<-9500, -5000>>, delta |-> 800],
       [path |-> <<"3p", "basis", "zeta1">>, line |-> 72,
        initial |-> 24000, bounds |-> <<10000, 55000>>, delta |-> 2500],
       [path |-> <<"3p", "basis", "zeta2">>, line |-> 73,
        initial |-> 20000, bounds |-> <<10000, 55000>>, delta |-> 2500],
       [path |-> <<"3d", "pseudo", "cutoff">>, line |-> 76,
        initial |-> 11500, bounds |-> <<8000, 23000>>, delta |-> 1000],
       [path |-> <<"3d", "basis", "charge-confinement", "charge">>, line |-> 80,
        initial |-> 0, bounds |-> <<0, 50000>>, delta |-> 5000],
       [path |-> <<"3d", "basis", "charge-confinement", "yukawa">>, line |-> 82,
        initial |-> 0, bounds |-> <<0, 30000>>, delta |-> 5000],
       [path |-> <<"3d", "basis", "charge-confinement", "width">>, line |-> 84,
        initial |-> 53, bounds |-> <<0, 5000>>, delta |-> 500],
       [path |-> <<"3d", "basis", "soft-confinement", "V0">>, line |-> 86,
        initial |-> 0, bounds |-> <<0, 10000000>>, delta |-> 500000],
       [path |-> <<"3d", "basis", "soft-confinement", "ri">>, line |-> 87,
        initial |-> -8000, bounds |-> <<-9500, -5000>>, delta |-> 800],
       [path |-> <<"3d", "basis", "zeta1">>, line |-> 88,
        initial |-> 24000, bounds |-> <<10000, 55000>>, delta |-> 2500],
       [path |-> <<"4f", "pseudo", "cutoff">>, line |-> 91,
        initial |-> 12000, bounds |-> <<8000, 23000>>, delta |-> 1000] >>

\* The path of the entry with the smallest initial value above its lower
\* bound (3d width: 0.0053 in [0.0, 0.5]).
WidthPath == <<"3d", "basis", "charge-confinement", "width">>

\* The file with 0.53 written for the initial 0.0053 of the 3d width.
VariableAtTypo(k) ==
    IF AtomAl[k].path = WidthPath
    THEN [AtomAl[k] EXCEPT !.initial = 5300]
    ELSE AtomAl[k]

\* The k-th variable entry of the file.
VariableAt(k) == AtomAl[k]

\* The variable an entry declares: its starting point, its search box
\* [lower, upper] and its step.
ToVariable(e) ==
    [path |-> e.path, initial |-> e.initial, lower |-> e.bounds[1],
     upper |-> e.bounds[2], delta |-> e.delta]

YamlIdle ==
    /\ pcYaml = "idle" /\ vidx = 0 /\ variable = <<>> /\ point = 0

YamlInit ==
    /\ pcYaml = "start"
    /\ vidx \in 1..Len(AtomAl)
    /\ variable = <<>>
    /\ point = 0

\* The minimizer reads a variable: the optimization starts at its initial
\* value.
ReadVariable ==
    /\ pcYaml = "start"
    /\ variable' = ToVariable(VariableAt(vidx))
    /\ point' = VariableAt(vidx).initial
    /\ pcYaml' = "read"
    /\ UNCHANGED vidx
    /\ UNCHANGED notYaml

\* A step of size delta upwards, when it stays inside the search box.
StepUp ==
    /\ pcYaml \in {"read", "stepped"}
    /\ point + variable.delta <= variable.upper
    /\ point' = point + variable.delta
    /\ pcYaml' = "stepped"
    /\ UNCHANGED <<vidx, variable>>
    /\ UNCHANGED notYaml

\* A step of size delta downwards, when it stays inside the search box.
StepDown ==
    /\ pcYaml \in {"read", "stepped"}
    /\ point - variable.delta >= variable.lower
    /\ point' = point - variable.delta
    /\ pcYaml' = "stepped"
    /\ UNCHANGED <<vidx, variable>>
    /\ UNCHANGED notYaml

NextYaml ==
    \/ ReadVariable
    \/ StepUp
    \/ StepDown

----------------------------------------------------------------------------
(* Specifications *)

NextPlot ==
    \/ PlotAtomGrid
    \/ MyPlot
    \/ PlotLoopEnd
    \/ DelAxes
    \/ PlotDraw

InitPlot == PlotInit /\ EigIdle /\ WaveIdle /\ RhoIdle /\ BuildIdle /\ UnitIdle /\ KernelIdle
    /\ YamlIdle
SpecPlot == InitPlot /\ [][NextPlot]_vars

InitEig == EigInit /\ PlotIdle /\ WaveIdle /\ RhoIdle /\ BuildIdle /\ UnitIdle /\ KernelIdle
    /\ YamlIdle
SpecEig == InitEig /\ [][NextEig]_vars

InitWave == WaveInit /\ PlotIdle /\ EigIdle /\ RhoIdle /\ BuildIdle /\ UnitIdle /\ KernelIdle
    /\ YamlIdle
SpecWave == InitWave /\ [][NextWave]_vars

InitRho == RhoInit /\ PlotIdle /\ EigIdle /\ WaveIdle /\ BuildIdle /\ UnitIdle /\ KernelIdle
    /\ YamlIdle
SpecRho == InitRho /\ [][NextRho]_vars

InitBuild == BuildInit /\ PlotIdle /\ EigIdle /\ WaveIdle /\ RhoIdle /\ UnitIdle /\ KernelIdle
    /\ YamlIdle
SpecBuild == InitBuild /\ [][NextBuild]_vars

InitUnit == UnitInit /\ PlotIdle /\ EigIdle /\ WaveIdle /\ RhoIdle /\ BuildIdle /\ KernelIdle
    /\ YamlIdle
SpecUnit == InitUnit /\ [][NextUnit]_vars

InitKernel ==
    KernelInit /\ PlotIdle /\ EigIdle /\ WaveIdle /\ RhoIdle /\ BuildIdle /\ UnitIdle
    /\ YamlIdle
SpecKernel == InitKernel /\ [][NextKernel]_vars

InitYaml ==
    YamlInit /\ PlotIdle /\ EigIdle /\ WaveIdle /\ RhoIdle /\ BuildIdle /\ UnitIdle
    /\ KernelIdle
SpecYaml == InitYaml /\ [][NextYaml]_vars

----------------------------------------------------------------------------
(* Claims *)

\* The stored elements of a row, and the phase-weighted sum of a set of them.
RowElements(row) == {n \in DOMAIN csr.col : csr.ptr[row] <= n /\ n < csr.ptr[row] + csr.ncol[row]}
RECURSIVE CSum(_, _)
CSum(S, f) ==
    IF S = {} THEN CZero
    ELSE LET n == CHOOSE m \in S : TRUE
         IN CAdd(CMul(phases[csr.col[n] \div NR], <<f[n], 0>>), CSum(S \ {n}, f))
FoldedSum(row, c) ==
    CSum({n \in RowElements(row) : csr.col[n] % NR = c}, csr.D)

\* C2: the k-space matrix is an accumulation over the stored elements: the
\* output entry (row, c) is the sum, over every stored element of the row
\* whose column folds onto c, of the element times the phase factor of the
\* supercell of its column; elements of different supercells that fold onto
\* one entry are summed, none is overwritten or dropped.
C2_Accumulation ==
    pcK = "done" =>
        \A row \in 0..(NR - 1) : \A c \in 0..(NR - 1) : v[row][c] = FoldedSum(row, c)
\* The kernel has returned for a matrix in which two stored elements of one
\* row, of different supercells, fold onto the same output entry.
C2_Witness ==
    /\ pcK = "done"
    /\ \E row \in 0..(NR - 1) : \E m, n \in RowElements(row) :
          /\ m # n
          /\ csr.col[m] % NR = csr.col[n] % NR
          /\ csr.col[m] \div NR # csr.col[n] \div NR

\* The unit got for a value follows the rule of lines 7-10.
FieldUnitRule(val, group, got) ==
    /\ val.unit # NoUnit => got = val.unit
    /\ (val.unit = NoUnit /\ group # NoUnit) => got = group

\* C3: in a variable of the minimizer input a unit written at a value
\* overrides the unit of the group, and the unit of the group applies to
\* every numeric field that carries no unit of its own; for the example
\*   V0: {initial: 0. Ang, bounds: [0, 200], delta: 50., unit=Bohr}
\* bounds and delta are read in Bohr and initial in Ang.
C3_UnitOverride ==
    (pcUnit = "parsed" /\ entry.kind = "variable") =>
        /\ FieldUnitRule(entry.initial, entry.unit, parsed.initial)
        /\ \A k \in 1..2 : FieldUnitRule(entry.bounds[k], entry.unit, parsed.bounds[k])
        /\ FieldUnitRule(entry.delta, entry.unit, parsed.delta)
        /\ entry = ExampleV0 =>
              parsed = [initial |-> "Ang", bounds |-> <<"Bohr", "Bohr">>,
                        delta |-> "Bohr"]
\* The example of line 9 has been parsed.
C3_Witness ==
    /\ pcUnit = "parsed"
    /\ entry = ExampleV0
    /\ parsed.initial = "Ang" /\ parsed.delta = "Bohr"

\* Index k is that of the smallest positive (LUMO) / of the negative
\* eigenvalue closest to E_F = 0 (HOMO).
IsLumo(k) ==
    /\ k \in 0..(Len(eig) - 1)
    /\ eig[k + 1] > 0
    /\ \A m \in 1..Len(eig) : eig[m] > 0 => eig[k + 1] <= eig[m]
IsHomo(k) ==
    /\ k \in 0..(Len(eig) - 1)
    /\ eig[k + 1] < 0
    /\ \A m \in 1..Len(eig) : eig[m] < 0 => eig[m] <= eig[k + 1]

\* C4 (as stated): for every ascending list of eigenvalues with at least
\* one positive value, idx_lumo is the index of the smallest positive
\* eigenvalue, idx_lumo - 1 is the index of the HOMO (a negative eigenvalue,
\* the one next to the LUMO), and the reduced es holds exactly the HOMO at
\* position 0 and the LUMO at position 1.
C4_HomoLumo ==
    (pcEig = "reduced" /\ \E m \in 1..Len(eig) : eig[m] > 0) =>
        /\ IsLumo(idx_lumo)
        /\ IsHomo(idx_lumo - 1)
        /\ es = <<idx_lumo - 1, idx_lumo>>

\* C5: for every atom with no >= 4 orbitals the grid plot_atom creates has
\* room for all of them: nx * ny >= no, and the figure holds nx * ny plots.
C5_GridHasRoom ==
    (no >= 4 /\ pcPlot = "draw") =>
        /\ nx * ny >= no
        /\ Cardinality(fig) = nx * ny
\* The correction nx += 1 was needed and applied (no = 9: 2 x 4 -> 3 x 4).
C5_Witness ==
    /\ pcPlot = "draw" /\ no >= 4
    /\ GridRows(no) * ny < no
    /\ nx = GridRows(no) + 1

\* C6 (as stated): for every atom with no >= 4 orbitals, every orbital
\* index selects a cell inside the nx x ny grid, and two different orbital
\* indices never select the same cell.
C6_OwnPlot ==
    no >= 4 =>
        /\ (pcPlot = "draw" /\ i < no) => AxInRange(nx, ny, CellIndex(i))
        /\ \A a, b \in 1..Len(drawn) : a # b => drawn[a] # drawn[b]

\* C7 (as stated): for every atom with no >= 4 orbitals, every cell the
\* removal loop selects lies inside the grid, no cell holding an orbital is
\* deleted, and when plot_atom finishes the plots left in the figure are
\* exactly the cells an orbital was drawn into.
C7_EmptyRemoved ==
    no >= 4 =>
        /\ (pcPlot = "remove" /\ j < nx * ny) => AxInRange(nx, ny, CellIndex(j))
        /\ pcPlot \in {"draw", "remove", "done"} => Range(drawn) \subseteq fig
        /\ pcPlot = "done" => fig = Range(drawn)

\* The sum of the squared values of an array on the grid points.
Norm2(a) == SumTo([p \in Pts |-> a[p] * a[p]], NPts)

\* C8: the first integrate(g) reports the HOMO alone, g.fill(0) makes every
\* grid value 0, and the second integrate(g) reports the LUMO alone: the
\* grid then holds the LUMO's values with nothing of the HOMO left.
C8_SeparateIntegrals ==
    /\ Len(out) >= 1 => out[1] = Norm2(psi[1]) * g.dvolume
    /\ pcWave = "filled" => \A p \in Pts : g.grid[p] = 0
    /\ pcWave \in {"lumo", "lumo_printed"} => g.grid = psi[2]
    /\ Len(out) = 2 => out[2] = Norm2(psi[2]) * g.dvolume
\* Both integrals printed, for a HOMO that is not zero on the grid and whose
\* sum with the LUMO integrates to something else than the LUMO alone.
C8_Witness ==
    /\ pcWave = "lumo_printed"
    /\ \E p \in Pts : psi[1][p] # 0
    /\ out[2] # Norm2([p \in Pts |-> psi[1][p] + psi[2][p]]) * g.dvolume

\* C9: diff = rho * (-1) is a new grid holding the negative of the read
\* density and rho is unchanged; after DM.density(diff) diff is (sisl
\* density - Siesta density) on every grid point; when the two densities are
\* equal every value of diff and the printed integral are zero.
C9_DensityDifference ==
    /\ pcRho \in {"negated", "added", "printed"} =>
          /\ diff # rho
          /\ heap[rho].grid = siesta
    /\ pcRho = "negated" => \A p \in Pts : heap[diff].grid[p] = -siesta[p]
    /\ pcRho \in {"added", "printed"} =>
          \A p \in Pts : heap[diff].grid[p] = dens[p] - siesta[p]
    /\ (pcRho = "printed" /\ dens = siesta) =>
          /\ \A p \in Pts : heap[diff].grid[p] = 0
          /\ outDiff = <<0>>
\* Equal, non-zero densities: the difference has been printed.
C9_Witness ==
    /\ pcRho = "printed"
    /\ dens = siesta
    /\ \E p \in Pts : siesta[p] # 0

\* C10 (as stated): every Cython extension library the build file builds
\* and installs appears in extension-pkg-allow-list under its installed
\* dotted module name, so pylint reports no false positive for any of them.
C10_AllExtensionsAllowed ==
    /\ \A k \in 1..Len(installed) : ModuleName(installed[k]) \in AllowList
    /\ flagged = {}

\* The modules pyproject.toml names as sisl.physics.<name> or sisl.<name>.
NamedBuildModules ==
    {m \in AllowList :
        /\ m[1] = SKBUILD_PROJECT_NAME
        /\ \/ Len(m) = 2
           \/ Len(m) = 3 /\ m[2] = "physics"}
\* The add_cython_library calls / the install calls for a library name.
AddCalls(name) == {k \in 1..Len(libs) : libs[k].LIBRARY = name}
InstallCalls(name) == {k \in 1..Len(installed) : installed[k].TARGETS = name}

\* C11: every module pyproject.toml names as sisl.physics.<name> or
\* sisl.<name> is built by the build file exactly once and installed to the
\* destination matching its dotted name; each source of a foreach list gets
\* one add_cython_library call followed by one install of that same target.
C11_NamedModulesBuiltOnce ==
    /\ Len(installed) = Len(libs) - (IF pcBuild = "install" THEN 1 ELSE 0)
    /\ \A k \in 1..Len(installed) : installed[k].TARGETS = libs[k].LIBRARY
    /\ \A k \in 1..Len(libs) : Cardinality(AddCalls(libs[k].LIBRARY)) = 1
    /\ pcBuild = "built" =>
          \A m \in NamedBuildModules :
              /\ Cardinality(AddCalls(m[Len(m)])) = 1
              /\ Cardinality(InstallCalls(m[Len(m)])) = 1
              /\ \A k \in InstallCalls(m[Len(m)]) : ModuleName(installed[k]) = m
\* The build has run through the three lists and the six named modules are
\* installed.
C11_Witness ==
    /\ pcBuild = "built"
    /\ NamedBuildModules =
          { <<"sisl", "physics", "_bloch">>, <<"sisl", "physics", "_matrix_k">>,
            <<"sisl", "physics", "_matrix_dk">>, <<"sisl", "physics", "_matrix_ddk">>,
            <<"sisl", "_math_small">>, <<"sisl", "_indices">> }
    /\ NamedBuildModules \subseteq InstalledModules

\* C12: for an atom with fewer than 4 orbitals (no in 0..3) nx = no // 4 is
\* 0 and ny = no // nx fails with a division by zero before any figure is
\* created: no plot is produced, nothing is drawn.
C12_TooFewOrbitals ==
    no < 4 =>
        /\ pcPlot \in {"start", "ZeroDivisionError"}
        /\ pcPlot = "ZeroDivisionError" => GridRows(no) = 0
        /\ fig = {} /\ drawn = <<>> /\ nx = 0 /\ ny = 0
\* plot_atom has failed for an atom with 3 orbitals.
C12_Witness ==
    /\ pcPlot = "ZeroDivisionError"
    /\ no = 3

\* A variable is well formed.
WellFormed(w) ==
    /\ w.lower < w.upper
    /\ w.lower <= w.initial /\ w.initial <= w.upper
    /\ w.delta > 0
    /\ w.delta <= w.upper - w.lower

\* C13: every variable declared under atom_Al is well formed: lower < upper,
\* lower <= initial <= upper, delta > 0 and delta <= upper - lower; the
\* optimization starts inside the search box.
C13_VariablesWellFormed ==
    pcYaml \in {"read", "stepped"} =>
        /\ WellFormed(variable)
        /\ pcYaml = "read" => point = variable.initial
        /\ variable.lower <= point /\ point <= variable.upper
\* The 3d width (initial 0.0053, bounds [0.0, 0.5], delta 0.05) has been
\* read.
C13_Witness ==
    /\ pcYaml = "read"
    /\ variable.path = WidthPath
    /\ point = 53

====
